---- MODULE Spec2Model ----
(***************************************************************************)
(* The PDF assembly pipeline of pdf-ai (src/pdf.py) together with the      *)
(* step of src/main.py that writes the artifact it reads.                  *)
(*                                                                         *)
(* A file name is a pair <<stem, suffix>>.  A PDF file is a record         *)
(* [exists, ok, pages]: ok is FALSE for a file PyPDF2 cannot parse, pages  *)
(* is the sequence of its pages, each page [src, no, titles] naming the    *)
(* source file it was rendered from, its number in that rendering and how  *)
(* many title headings have been drawn on it.                              *)
(***************************************************************************)
EXTENDS Integers, Sequences, FiniteSets, TLC

\* ------------------------------------------------------------------ bounds
\* Longest ordered_files list the ordering model may return.
MaxFiles == 3
\* Number of TOC entry lines that fit on one A4 page of the TOC document.
\* The layout engine's real capacity is a few dozen lines; it is scaled
\* down so that lists of MaxFiles entries reach the page break.
TocEntriesPerPage == 3
\* Largest number of pages the summary text may flow over.
MaxSummaryPages == 2

\* ------------------------------------------------------------- file system
None == <<>>

NoFile == [exists |-> FALSE, ok |-> FALSE, pages |-> <<>>]

\* A well-formed n-page PDF rendered from source f, t headings on page 1.
Render(f, n, t) ==
  [exists |-> TRUE, ok |-> TRUE,
   pages |-> [k \in 1..n |-> [src |-> f, no |-> k,
                               titles |-> IF k = 1 THEN t ELSE 0]]]

\* A file that exists but that PdfReader cannot parse.
Garbage == [exists |-> TRUE, ok |-> FALSE, pages |-> <<>>]

ADocx  == <<"a", ".docx">>
APdf   == <<"a", ".pdf">>
BTxt   == <<"b", ".txt">>
CPng   == <<"c", ".PNG">>
DXyz   == <<"d", ".xyz">>
BadPdf == <<"bad", ".pdf">>
GPdf   == <<"g", ".pdf">>

\* The files found under source_folder: the number of pages each one
\* renders to, 0 standing for a .pdf whose bytes are not a PDF.
\* g.pdf is named by the artifact but is not in the folder.
SourceFolder ==
  (ADocx :> 2) @@ (APdf :> 3) @@ (BTxt :> 1) @@ (CPng :> 1) @@
  (DXyz :> 1) @@ (BadPdf :> 0)

FileNames == DOMAIN SourceFolder \cup {GPdf}

Stems == {f[1] : f \in FileNames}

\* The paths convert_all_to_pdfs can write under source_folder/converted.
ConvertedPaths == {<<s, ".pdf">> : s \in Stems}

\* str.lower() on the suffixes that occur.
Lower(ext) == IF ext = ".PNG" THEN ".png" ELSE ext

PDFConverterRegistry ==
  (".docx" :> "convert_docx_to_pdf") @@ (".pdf" :> "copy_pdf") @@
  (".txt" :> "txt_to_pdf") @@ (".jpg" :> "image_to_pdf") @@
  (".jpeg" :> "image_to_pdf") @@ (".png" :> "image_to_pdf") @@
  (".tif" :> "image_to_pdf") @@ (".tiff" :> "image_to_pdf")

VARIABLES
  pc,            \* position in main: order, read, convert, toc, summary, merge, done, aborted
  artifact,      \* summary_report.json: [kind, files]
  ordered_files, \* the list generate_pdf_report iterates
  i,             \* 1-based index of the next entry of the conversion loop
  converted,     \* the directory source_folder/converted: path -> file
  pdf_infos,     \* the list convert_all_to_pdfs accumulates
  trace,         \* per processed entry, what happened to it
  toc_entries,   \* the lines build_toc_pdf emitted: [text, page]
  toc_pdf,       \* temp_dir/toc.pdf
  summary_pdf,   \* temp_dir/summary.pdf
  output_pdf,    \* the final report
  starts,        \* position in output_pdf at which each appended file begins
  output_writes, \* how often output_pdf was written
  error          \* which step raised, "none" while nothing did

vars == <<pc, artifact, ordered_files, i, converted, pdf_infos, trace,
          toc_entries, toc_pdf, summary_pdf, output_pdf, starts,
          output_writes, error>>

\* All lists of at most n file names.
RECURSIVE Lists(_)
Lists(n) ==
  IF n = 0 THEN {<<>>}
  ELSE LET shorter == Lists(n - 1) IN
       shorter \cup {Append(l, f) : l \in {s \in shorter : Len(s) = n - 1},
                                   f \in FileNames}

Init ==
  /\ pc = "order"
  /\ artifact \in {[kind |-> "missing", files |-> <<>>],
                   [kind |-> "invalid_json", files |-> <<>>]}
  /\ ordered_files = <<>>
  /\ i = 1
  /\ converted = [p \in ConvertedPaths |-> NoFile]
  /\ pdf_infos = <<>>
  /\ trace = <<>>
  /\ toc_entries = <<>>
  /\ toc_pdf = NoFile
  /\ summary_pdf = NoFile
  /\ output_pdf = NoFile
  /\ starts = <<>>
  /\ output_writes = 0
  /\ error = "none"

\* order_and_summarize_report: no reply leaves the artifact as it was, a
\* reply that is not JSON is saved as {"error", "raw_output"}, a JSON reply
\* is saved as it is.
OrderAndSummarize ==
  /\ pc = "order"
  /\ \E response \in {[kind |-> "none", files |-> <<>>],
                      [kind |-> "not_json", files |-> <<>>]}
                     \cup {[kind |-> "json", files |-> l] : l \in Lists(MaxFiles)} :
       artifact' = IF response.kind = "none" THEN artifact
                   ELSE IF response.kind = "not_json"
                        THEN [kind |-> "error_object", files |-> <<>>]
                        ELSE [kind |-> "report", files |-> response.files]
  /\ pc' = "read"
  /\ UNCHANGED <<ordered_files, i, converted, pdf_infos, trace, toc_entries,
                 toc_pdf, summary_pdf, output_pdf, starts, output_writes,
                 error>>

\* generate_pdf_report up to the call of convert_all_to_pdfs: open() and
\* json.load raise on a missing or unparsable file; data.get defaults
\* ordered_files to [] when the key is absent.
ReadArtifact ==
  /\ pc = "read"
  /\ IF artifact.kind \in {"missing", "invalid_json"}
     THEN /\ pc' = "aborted"
          /\ error' = "artifact"
          /\ UNCHANGED ordered_files
     ELSE /\ pc' = "convert"
          /\ ordered_files' = IF artifact.kind = "report" THEN artifact.files
                              ELSE <<>>
          /\ UNCHANGED error
  /\ UNCHANGED <<artifact, i, converted, pdf_infos, trace, toc_entries,
                 toc_pdf, summary_pdf, output_pdf, starts, output_writes>>

\* ---------------------------------------------------------------- converters
\* The bytes of a source file read as a PDF.
SourcePdf(f) == IF SourceFolder[f] = 0 THEN Garbage
                ELSE Render(f, SourceFolder[f], 0)

\* inject_pdf_title.  step names the step that fails: "ok" none, "overlay"
\* building the overlay, "write" writing after open(..., "wb") truncated
\* the file.  Reading fails by itself on a file that is no PDF or has no
\* first page.  Every failure is caught and the path is returned.
inject_pdf_title(fs, pdf_path, title, step) ==
  LET file == fs[pdf_path] IN
  IF ~file.ok \/ Len(file.pages) = 0 \/ step = "overlay"
  THEN [fs |-> fs, ret |-> pdf_path, failed |-> TRUE]
  ELSE IF step = "write"
  THEN [fs |-> [fs EXCEPT ![pdf_path] = Garbage], ret |-> pdf_path,
        failed |-> TRUE]
  ELSE [fs |-> [fs EXCEPT ![pdf_path].pages[1].titles = @ + 1],
        ret |-> pdf_path, failed |-> FALSE]

\* convert_docx_to_pdf running LibreOffice whatever docx2pdf did.
convert_docx_always_fallback(fs, docx_path, primary, fallback) ==
  LET output_pdf_ == <<docx_path[1], ".pdf">>
      written == [fs EXCEPT ![output_pdf_] =
                    Render(docx_path, SourceFolder[docx_path], 0)]
  IN [fs |-> IF primary = "ok" \/ fallback = "ok" THEN written ELSE fs,
      ret |-> IF primary # "ok" /\ fallback = "raise" THEN None
              ELSE output_pdf_,
      raised |-> FALSE, calls |-> <<"docx2pdf", "libreoffice">>]

\* convert_docx_to_pdf.  primary is docx2pdf's outcome ("ok", "raise"),
\* fallback LibreOffice's ("ok", "raise", or "silent": exit status 0 and no
\* file written).
convert_docx_to_pdf(fs, docx_path, primary, fallback) ==
  LET output_pdf_ == <<docx_path[1], ".pdf">>
      written == [fs EXCEPT ![output_pdf_] =
                    Render(docx_path, SourceFolder[docx_path], 0)]
  IN IF primary = "ok"
     THEN [fs |-> written, ret |-> output_pdf_, raised |-> FALSE,
           calls |-> <<"docx2pdf">>]
     ELSE IF fallback = "raise"
     THEN [fs |-> fs, ret |-> None, raised |-> FALSE,
           calls |-> <<"docx2pdf", "libreoffice">>]
     ELSE [fs |-> IF fallback = "ok" THEN written ELSE fs,
           ret |-> output_pdf_, raised |-> FALSE,
           calls |-> <<"docx2pdf", "libreoffice">>]

\* txt_to_pdf: the title paragraph is part of the rendering; open() or the
\* decoding of the file may raise, nothing catches it.
txt_to_pdf(fs, txt_path, io) ==
  LET output_pdf_ == <<txt_path[1], ".pdf">> IN
  IF io = "raise"
  THEN [fs |-> fs, ret |-> None, raised |-> TRUE, calls |-> <<>>]
  ELSE [fs |-> [fs EXCEPT ![output_pdf_] =
                  Render(txt_path, SourceFolder[txt_path], 1)],
        ret |-> output_pdf_, raised |-> FALSE, calls |-> <<>>]

\* image_to_pdf: one page; ImageReader raises on an unreadable image before
\* the canvas is saved.
image_to_pdf(fs, image_path, output_path, title, io) ==
  IF io = "raise"
  THEN [fs |-> fs, ret |-> None, raised |-> TRUE, calls |-> <<>>]
  ELSE [fs |-> [fs EXCEPT ![output_path] =
                  Render(image_path, 1, IF title = None THEN 0 ELSE 1)],
        ret |-> output_path, raised |-> FALSE, calls |-> <<>>]

\* copy_pdf: the destination keeps the source's name.
copy_pdf(fs, pdf_path, io) ==
  LET dest == <<pdf_path[1], pdf_path[2]>> IN
  IF io = "raise"
  THEN [fs |-> fs, ret |-> None, raised |-> TRUE, calls |-> <<>>]
  ELSE [fs |-> [fs EXCEPT ![dest] = SourcePdf(pdf_path)], ret |-> dest,
        raised |-> FALSE, calls |-> <<>>]

\* The dispatch of convert_all_to_pdfs on the registered converter.
RunConverter(fs, src_path, converter, primary, fallback, io) ==
  IF converter = "image_to_pdf"
  THEN image_to_pdf(fs, src_path, <<src_path[1], ".pdf">>, src_path, io)
  ELSE IF converter = "convert_docx_to_pdf"
  THEN convert_docx_to_pdf(fs, src_path, primary, fallback)
  ELSE IF converter = "txt_to_pdf"
  THEN txt_to_pdf(fs, src_path, io)
  ELSE copy_pdf(fs, src_path, io)

\* What the trace keeps of one entry.
\* produced is the file at the returned path when the converter returned,
\* final the file at that path after the title injection.
Rec(filename, result, c, inject, produced, final) ==
  [filename |-> filename, result |-> result, calls |-> c.calls,
   primary |-> c.primary, fallback |-> c.fallback, returned |-> c.ret,
   inject |-> inject, produced |-> produced, final |-> final]

NoCall == [calls |-> <<>>, primary |-> "n/a", fallback |-> "n/a", ret |-> None]

\* One iteration of the loop of convert_all_to_pdfs on entry filename.
\* infos is what the iteration appends to pdf_infos, raised whether an
\* exception left the loop.
ConvertStep(fs, filename, primary, fallback, io, step) ==
  LET ext == Lower(filename[2]) IN
  IF filename \notin DOMAIN SourceFolder
  THEN [fs |-> fs, infos |-> <<>>, raised |-> FALSE,
        rec |-> Rec(filename, "missing", NoCall, "n/a", NoFile, NoFile)]
  ELSE IF ext \notin DOMAIN PDFConverterRegistry
  THEN [fs |-> fs, infos |-> <<>>, raised |-> FALSE,
        rec |-> Rec(filename, "unsupported", NoCall, "n/a", NoFile, NoFile)]
  ELSE
    LET converter == PDFConverterRegistry[ext]
        r == RunConverter(fs, filename, converter, primary, fallback, io)
        isdocx == converter = "convert_docx_to_pdf"
        c == [calls |-> r.calls, ret |-> r.ret,
              primary |-> IF isdocx THEN primary ELSE "n/a",
              fallback |-> IF isdocx /\ primary # "ok" THEN fallback ELSE "n/a"]
    IN IF r.raised
       THEN [fs |-> r.fs, infos |-> <<>>, raised |-> TRUE,
             rec |-> Rec(filename, "raised", c, "n/a", NoFile, NoFile)]
       ELSE IF r.ret = None \/ ~r.fs[r.ret].exists
       THEN [fs |-> r.fs, infos |-> <<>>, raised |-> FALSE,
             rec |-> Rec(filename, "no_pdf", c, "n/a", NoFile, NoFile)]
       ELSE
         LET t == IF ext # ".txt"
                  THEN inject_pdf_title(r.fs, r.ret, filename, step)
                  ELSE [fs |-> r.fs, ret |-> r.ret, failed |-> FALSE]
             inject == IF ext = ".txt" THEN "skipped"
                       ELSE IF t.failed THEN "failed" ELSE "ok"
             file == t.fs[t.ret]
         IN IF ~file.ok
            THEN [fs |-> t.fs, infos |-> <<>>, raised |-> TRUE,
                  rec |-> Rec(filename, "unreadable", c, inject,
                              r.fs[r.ret], file)]
            ELSE [fs |-> t.fs,
                  infos |-> <<[title |-> filename, path |-> t.ret,
                               pages |-> Len(file.pages)]>>,
                  raised |-> FALSE,
                  rec |-> Rec(filename, "appended", c, inject,
                              r.fs[r.ret], file)]

\* pdf_infos.insert(0, ...) in place of append.
PrependInfos(infos, new) == new \o infos

\* pdf_infos.append
AppendInfos(infos, new) == infos \o new

ConvertEntry ==
  /\ pc = "convert"
  /\ i <= Len(ordered_files)
  /\ \E primary \in {"ok", "raise"}, fallback \in {"ok", "raise", "silent"},
        io \in {"ok", "raise"}, step \in {"ok", "overlay", "write"} :
       LET r == ConvertStep(converted, ordered_files[i], primary, fallback,
                            io, step)
       IN /\ converted' = r.fs
          /\ pdf_infos' = AppendInfos(pdf_infos, r.infos)
          /\ trace' = Append(trace, r.rec)
          /\ IF r.raised
             THEN pc' = "aborted" /\ error' = "convert" /\ i' = i
             ELSE pc' = pc /\ error' = error /\ i' = i + 1
  /\ UNCHANGED <<artifact, ordered_files, toc_entries, toc_pdf, summary_pdf,
                 output_pdf, starts, output_writes>>

\* ------------------------------------------------------- TOC, summary, merge
TocName == <<"toc", ".pdf">>
SummaryName == <<"summary", ".pdf">>
SummaryLabel == <<"Sammanfattning">>

\* build_toc_pdf advancing page_counter before it prints the entry.
RECURSIVE TocLoopAdvanceFirst(_, _, _)
TocLoopAdvanceFirst(infos, k, page_counter) ==
  IF k > Len(infos)
  THEN <<[text |-> SummaryLabel, page |-> page_counter]>>
  ELSE <<[text |-> infos[k].title, page |-> page_counter + infos[k].pages]>>
       \o TocLoopAdvanceFirst(infos, k + 1, page_counter + infos[k].pages)

\* The loop of build_toc_pdf from entry k on, with the running page_counter,
\* ending with the summary entry.
RECURSIVE TocLoop(_, _, _)
TocLoop(infos, k, page_counter) ==
  IF k > Len(infos)
  THEN <<[text |-> SummaryLabel, page |-> page_counter]>>
  ELSE <<[text |-> infos[k].title, page |-> page_counter]>>
       \o TocLoop(infos, k + 1, page_counter + infos[k].pages)

\* page_counter = 2
TocFirstPage == 2

build_toc_entries(infos) == TocLoop(infos, 1, TocFirstPage)

\* The pages doc.build lays n entry lines out on.
TocPageCount(n) == (n + TocEntriesPerPage - 1) \div TocEntriesPerPage

\* build_toc_pdf, entered when the conversion loop has returned.
BuildToc ==
  /\ pc = "convert"
  /\ i > Len(ordered_files)
  /\ toc_entries' = build_toc_entries(pdf_infos)
  /\ toc_pdf' = Render(TocName, TocPageCount(Len(pdf_infos) + 1), 0)
  /\ pc' = "summary"
  /\ UNCHANGED <<artifact, ordered_files, i, converted, pdf_infos, trace,
                 summary_pdf, output_pdf, starts, output_writes, error>>

\* create_summary_pdf: the text flows over as many pages as it needs.
CreateSummary ==
  /\ pc = "summary"
  /\ \E n \in 1..MaxSummaryPages : summary_pdf' = Render(SummaryName, n, 0)
  /\ pc' = "merge"
  /\ UNCHANGED <<artifact, ordered_files, i, converted, pdf_infos, trace,
                 toc_entries, toc_pdf, output_pdf, starts, output_writes,
                 error>>

\* PdfMerger.append of files[k..], m the merger so far: its pages and the
\* position at which each appended file began.
RECURSIVE AppendAll(_, _, _)
AppendAll(m, files, k) ==
  IF k > Len(files) THEN m
  ELSE AppendAll([pages |-> m.pages \o files[k].pages,
                  starts |-> Append(m.starts, Len(m.pages) + 1)],
                 files, k + 1)

\* merge_pdfs_with_toc appending the summary before the documents.
MergeInputsSummaryFirst(toc, fs, infos, summary) ==
  <<toc, summary>> \o [k \in 1..Len(infos) |-> fs[infos[k].path]]

\* The files merge_pdfs_with_toc appends, in the order it appends them.
MergeInputs(toc, fs, infos, summary) ==
  <<toc>> \o [k \in 1..Len(infos) |-> fs[infos[k].path]] \o <<summary>>

merge_pdfs_with_toc(toc, fs, infos, summary) ==
  AppendAll([pages |-> <<>>, starts |-> <<>>],
            MergeInputs(toc, fs, infos, summary), 1)

Merge ==
  /\ pc = "merge"
  /\ LET files == MergeInputs(toc_pdf, converted, pdf_infos, summary_pdf)
         m == merge_pdfs_with_toc(toc_pdf, converted, pdf_infos, summary_pdf)
     IN IF \E k \in 1..Len(files) : ~files[k].ok
        THEN /\ pc' = "aborted"
             /\ error' = "merge"
             /\ UNCHANGED <<output_pdf, starts, output_writes>>
        ELSE /\ pc' = "done"
             /\ output_pdf' = [exists |-> TRUE, ok |-> TRUE, pages |-> m.pages]
             /\ starts' = m.starts
             /\ output_writes' = output_writes + 1
             /\ UNCHANGED error
  /\ UNCHANGED <<artifact, ordered_files, i, converted, pdf_infos, trace,
                 toc_entries, toc_pdf, summary_pdf>>

Next ==
  \/ OrderAndSummarize
  \/ ReadArtifact
  \/ ConvertEntry
  \/ BuildToc
  \/ CreateSummary
  \/ Merge

Spec == Init /\ [][Next]_vars

\* ------------------------------------------------------------------- claims
\* Sum of the recorded page counts of infos[1..k].
RECURSIVE SumPages(_, _)
SumPages(infos, k) == IF k = 0 THEN 0 ELSE SumPages(infos, k - 1) + infos[k].pages

\* The elements of seq at the indices in keep, from index k on, in order.
RECURSIVE Pick(_, _, _)
Pick(seq, keep, k) ==
  IF k > Len(seq) THEN <<>>
  ELSE (IF k \in keep THEN <<seq[k]>> ELSE <<>>) \o Pick(seq, keep, k + 1)

\* The file currently at the path of the k-th converted document.
DocFile(k) == converted[pdf_infos[k].path]

\* Number of pages of the files currently at the paths of documents 1..k.
RECURSIVE DocPagesBefore(_)
DocPagesBefore(k) ==
  IF k = 0 THEN 0 ELSE DocPagesBefore(k - 1) + Len(DocFile(k).pages)

TocBuilt == pc \in {"summary", "merge", "done"}

\* C2: build_toc_pdf emits one entry per document in input order and then
\* the summary entry; the first start page is 2, each next start page is the
\* previous one plus the previous document's page count, and the summary
\* entry is at 2 plus the sum of all page counts.
C2_TocEntries ==
  TocBuilt =>
    LET n == Len(pdf_infos) IN
    /\ Len(toc_entries) = n + 1
    /\ toc_entries[1].page = 2
    /\ \A k \in 1..n :
         /\ toc_entries[k].text = pdf_infos[k].title
         /\ toc_entries[k].page = 2 + SumPages(pdf_infos, k - 1)
         /\ toc_entries[k + 1].page = toc_entries[k].page + pdf_infos[k].pages
    /\ toc_entries[n + 1].text = SummaryLabel
    /\ toc_entries[n + 1].page = 2 + SumPages(pdf_infos, n)

\* Three documents of page counts 2, 3 and 1 went through build_toc_pdf.
C2_Witness ==
  /\ TocBuilt
  /\ Len(pdf_infos) = 3
  /\ <<pdf_infos[1].pages, pdf_infos[2].pages, pdf_infos[3].pages>> = <<2, 3, 1>>
  /\ toc_entries[4].page = 8

\* The entries of ordered_files processed so far that convert_all_to_pdfs
\* has to keep: the source exists, its suffix is registered and the
\* converter returned a path at which a PDF exists.
KeptEntries ==
  {k \in 1..Len(trace) :
     /\ ordered_files[k] \in DOMAIN SourceFolder
     /\ Lower(ordered_files[k][2]) \in DOMAIN PDFConverterRegistry
     /\ trace[k].returned # None
     /\ trace[k].produced.exists}

LoopRaised == pc = "aborted" /\ error = "convert"

\* C3: as long as no exception has left the loop, the titles accumulated by
\* convert_all_to_pdfs are the processed entries of ordered_files that exist,
\* have a registered suffix and whose converter returned an existing PDF, in
\* input order, with nothing added, reordered or left as a placeholder.
C3_OrderPreserved ==
  ~LoopRaised =>
    /\ Len(trace) = i - 1
    /\ \A k \in 1..Len(trace) : trace[k].filename = ordered_files[k]
    /\ [k \in 1..Len(pdf_infos) |-> pdf_infos[k].title]
         = Pick(ordered_files, KeptEntries, 1)

\* convert_all_to_pdfs returned two documents from a list of three whose
\* middle entry was skipped.
C3_Witness ==
  /\ TocBuilt
  /\ Len(ordered_files) = 3
  /\ KeptEntries = {1, 3}
  /\ Len(pdf_infos) = 2
  /\ pdf_infos[1].title # pdf_infos[2].title

\* C9: for a .docx source docx2pdf is invoked once, LibreOffice at most once
\* and only after docx2pdf failed, nothing is retried; when docx2pdf succeeds
\* LibreOffice is not run, when both fail no path is returned and the entry
\* is skipped, when either succeeds the output path is returned.
C9_DocxOnceEach ==
  \A k \in 1..Len(trace) :
    (/\ trace[k].filename \in DOMAIN SourceFolder
     /\ Lower(trace[k].filename[2]) = ".docx") =>
      LET t == trace[k]
          out == <<t.filename[1], ".pdf">>
      IN /\ t.primary = "ok" =>
              /\ t.calls = <<"docx2pdf">>
              /\ t.returned = out
         /\ t.primary = "raise" =>
              /\ t.calls = <<"docx2pdf", "libreoffice">>
              /\ t.fallback = "ok" => t.returned = out
              /\ t.fallback = "raise" =>
                   /\ t.returned = None
                   /\ t.result = "no_pdf"

\* A list with two .docx entries: for one docx2pdf succeeded, for the other
\* both converters failed and the entry was skipped.
C9_Witness ==
  /\ TocBuilt
  /\ \E j, k \in 1..Len(trace) :
       /\ trace[j].calls = <<"docx2pdf">>
       /\ trace[j].result = "appended"
       /\ trace[k].calls = <<"docx2pdf", "libreoffice">>
       /\ trace[k].fallback = "raise"
       /\ trace[k].result = "no_pdf"
  /\ \E k \in 1..Len(trace) :
       trace[k].fallback = "ok" /\ trace[k].result = "appended"

\* C6: the final report is the TOC pages, then the pages of the file at each
\* converted document's path in the order convert_all_to_pdfs returned them,
\* then the summary pages; it is written only after the conversions, the TOC
\* and the summary are finished, and it is written once.
C6_MergeOrder ==
  /\ output_writes = IF output_pdf.exists THEN 1 ELSE 0
  /\ output_pdf.exists =>
       /\ pc = "done"
       /\ i > Len(ordered_files)
       /\ toc_pdf.exists
       /\ summary_pdf.exists
       /\ LET T == Len(toc_pdf.pages)
              n == Len(pdf_infos)
              D == DocPagesBefore(n)
              out == output_pdf.pages
          IN /\ Len(out) = T + D + Len(summary_pdf.pages)
             /\ \A p \in 1..T : out[p] = toc_pdf.pages[p]
             /\ \A k \in 1..n : \A q \in 1..Len(DocFile(k).pages) :
                  out[T + DocPagesBefore(k - 1) + q] = DocFile(k).pages[q]
             /\ \A q \in 1..Len(summary_pdf.pages) :
                  out[T + D + q] = summary_pdf.pages[q]

\* A report of three documents at three different paths was merged.
C6_Witness ==
  /\ pc = "done"
  /\ Len(pdf_infos) = 3
  /\ Cardinality({pdf_infos[k].path : k \in 1..3}) = 3
  /\ Len(summary_pdf.pages) = 2

\* Every converted document's recorded page count is the page count of the
\* file at its path, and the file is the rendering of its own source.
InfosMatchFiles ==
  \A k \in 1..Len(pdf_infos) :
    /\ Len(DocFile(k).pages) = pdf_infos[k].pages
    /\ \A q \in 1..Len(DocFile(k).pages) :
         DocFile(k).pages[q].src = pdf_infos[k].title

\* C1: the page number printed in the TOC for each document is the position
\* of that document's first page in the merged report, and the summary
\* entry's page number is the position of the first summary page.  Stated
\* for the reports whose converted files are their entries' own.
C1_TocMatchesMerge ==
  (pc = "done" /\ InfosMatchFiles) =>
    \A k \in 1..Len(toc_entries) : toc_entries[k].page = starts[k + 1]

\* C4: no failure on one input file makes convert_all_to_pdfs raise.
C4_NoAbortInLoop == ~LoopRaised

\* C5: with exactly one entry missing and every other entry converted, the
\* report holds, between the TOC and the summary, the pages of the other
\* entries in input order, and the TOC lists exactly those entries.
C5_SkipAndContinue ==
  LET missing == {k \in 1..Len(trace) : trace[k].result = "missing"}
      others == Pick(ordered_files, (1..Len(ordered_files)) \ missing, 1)
  IN (/\ pc = "done"
      /\ Cardinality(missing) = 1
      /\ \A k \in 1..Len(trace) : trace[k].result \in {"missing", "appended"})
     => /\ Len(pdf_infos) = Len(others)
        /\ \A k \in 1..Len(others) :
             /\ toc_entries[k].text = others[k]
             /\ starts[k + 2] > starts[k + 1]
             /\ \A p \in starts[k + 1]..(starts[k + 2] - 1) :
                  output_pdf.pages[p].src = others[k]

\* C7: a failed title injection leaves the file as the converter produced
\* it and the document is appended to pdf_infos.
C7_InjectFailureHarmless ==
  \A k \in 1..Len(trace) :
    trace[k].inject = "failed" =>
      /\ trace[k].result = "appended"
      /\ trace[k].final = trace[k].produced

\* C8: when the artifact is missing, is not JSON or lacks ordered_files and
\* overall_summary, no final PDF is written.
C8_ArtifactFatal ==
  (pc # "order" /\ artifact.kind # "report") => ~output_pdf.exists

\* C10: when merge_pdfs_with_toc runs, every entry of pdf_infos has the page
\* count of the file at its path and that file is its own source's.
C10_InfosOwnFiles == pc = "merge" => InfosMatchFiles
====
